---- MODULE Spec2Model ----
(***************************************************************************)
(* Model of kvmd/apps/live777: the Live777Runner supervisor (runner.py)    *)
(* and the STUN client it probes the network with (stun.py).               *)
(*                                                                         *)
(* Python strings that are only compared are TLA+ strings.  Strings that   *)
(* are formatted (argv tokens, environment values) are sequences of atoms  *)
(* (indivisible pieces of text), so that concatenation, emptiness and      *)
(* prefixes are computed.  Byte strings are sequences of 0..255.           *)
(* An optional value is <<>> (None) or <<v>>.                              *)
(***************************************************************************)
EXTENDS Integers, Sequences, FiniteSets, TLC

\* ------------------------------------------------------------------ bounds
MaxTasks == 2          \* task slots of the event loop the model tracks
MaxProcs == 2          \* process slots the model tracks
MaxCheckRetries == 2   \* largest configured check_retries

\* --------------------------------------------------------------- data model
NatTypes == {"ERROR", "BLOCKED", "OPEN_INTERNET", "SYMMETRIC_UDP_FW", "FULL_CONE_NAT",
             "RESTRICTED_NAT", "RESTRICTED_PORT_NAT", "SYMMETRIC_NAT", "CHANGED_ADDR_ERROR"}

None == <<>>
Some(v) == <<v>>

StunInfo(nat_type, src_ip, ext_ip, stun_host, stun_ip, stun_port) ==
    [nat_type |-> nat_type, src_ip |-> src_ip, ext_ip |-> ext_ip,
     stun_host |-> stun_host, stun_ip |-> stun_ip, stun_port |-> stun_port]

\* _Netcfg(): every field at its dataclass default
DefaultNetcfg == StunInfo("ERROR", "", "", "", "", 0)

\* _Netcfg(**dataclasses.asdict(info)): the same six fields, lifted one by one
Netcfg(info) ==
    [nat_type |-> info.nat_type, src_ip |-> info.src_ip, ext_ip |-> info.ext_ip,
     stun_host |-> info.stun_host, stun_ip |-> info.stun_ip, stun_port |-> info.stun_port]

\* configuration of the Stun instance the runner owns
StunHost == "stun.example.org"
StunPort == 3478

\* ------------------------------------------------------- formatted strings
Atoms(s) == IF s = "" THEN <<>> ELSE <<s>>

DigitAtom(d) == <<"0", "1", "2", "3", "4", "5", "6", "7", "8", "9">>[d + 1]

RECURSIVE StrInt(_)
StrInt(n) == IF n < 10 THEN <<DigitAtom(n)>> ELSE StrInt(n \div 10) \o <<DigitAtom(n % 10)>>

\* str(StunNatType.X)
StrNat(t) == <<"StunNatType.", t>>

Lit(s) == [k |-> "lit", v |-> s]
Ph(name) == [k |-> "ph", v |-> name]
OStunServerToken == <<Ph("o_stun_server")>>       \* the token "{o_stun_server}"

\* the placeholders dict of __start_live777_proc, o_stun_server already decided
PlaceholdersWith(netcfg, o_stun_server) ==
    [o_stun_server |-> o_stun_server,
     nat_type  |-> StrNat(netcfg.nat_type),
     src_ip    |-> Atoms(netcfg.src_ip),
     ext_ip    |-> Atoms(netcfg.ext_ip),
     stun_host |-> Atoms(netcfg.stun_host),
     stun_ip   |-> Atoms(netcfg.stun_ip),
     stun_port |-> StrInt(netcfg.stun_port)]

OStunServerValue(netcfg) ==
    <<"--stun-server=">> \o Atoms(netcfg.stun_ip) \o <<":">> \o StrInt(netcfg.stun_port)

\* the value o_stun_server has when the command is formatted
MutPlaceholdersKeepStun(netcfg) == PlaceholdersWith(netcfg, OStunServerValue(netcfg))
Placeholders(netcfg) ==
    PlaceholdersWith(netcfg, IF netcfg.ext_ip = "" THEN <<>> ELSE OStunServerValue(netcfg))

\* while "{o_stun_server}" in cmd: cmd.remove("{o_stun_server}")
RECURSIVE RemoveAll(_, _)
RemoveAll(cmd, tok) ==
    IF cmd = <<>> THEN <<>>
    ELSE IF Head(cmd) = tok THEN RemoveAll(Tail(cmd), tok)
    ELSE <<Head(cmd)>> \o RemoveAll(Tail(cmd), tok)

MutDropTokensNever(cmd, netcfg) == cmd
DropTokens(cmd, netcfg) ==
    IF netcfg.ext_ip = "" THEN RemoveAll(cmd, OStunServerToken) ELSE cmd

\* part.format(**placeholders)
RECURSIVE Format(_, _)
Format(part, ph) ==
    IF part = <<>> THEN <<>>
    ELSE (IF Head(part).k = "lit" THEN Atoms(Head(part).v) ELSE ph[Head(part).v])
         \o Format(Tail(part), ph)

KnownPlaceholders == DOMAIN Placeholders(DefaultNetcfg)

\* str.format raises KeyError for a name the dict lacks
FormatRaises(cmd) ==
    \E i \in 1..Len(cmd) : \E j \in 1..Len(cmd[i]) :
        cmd[i][j].k = "ph" /\ cmd[i][j].v \notin KnownPlaceholders

\* the argv __start_live777_proc hands to run_process
RenderCmd(cmd, netcfg) ==
    LET kept == DropTokens(cmd, netcfg)
    IN  [i \in 1..Len(kept) |-> Format(kept[i], Placeholders(netcfg))]

RenderEnv(netcfg) ==
    [LIVE777_STUN_URL |-> <<"stun:">> \o Atoms(netcfg.stun_host) \o <<":">> \o StrInt(netcfg.stun_port),
     LIVE777_VIDEO_SOURCE |-> <<"kvmd::ustreamer::h264">>,
     LIVE777_AUDIO_SOURCE |-> <<"hw:tc358743,0">>]

\* the command template the supervisor model runs with (tools.build_cmd's result)
RunnerCmd == << <<Lit("/usr/bin/live777")>>, OStunServerToken,
                <<Lit("--nat-ip="), Ph("ext_ip")>> >>

\* command templates the configuration can give the runner
Exe == <<Lit("/usr/bin/live777")>>
Templates ==
    { RunnerCmd,
      <<Exe>>,
      <<Exe, OStunServerToken, OStunServerToken>>,
      <<Exe, <<Ph("ext_ip")>>, OStunServerToken>>,
      <<Exe, <<Ph("o_stun_server"), Ph("o_stun_server")>> >>,
      <<Exe, <<Lit("-x"), Ph("o_stun_server")>> >>,
      <<Exe, <<Lit("--stun-server=9.9.9.9:3478")>> >>,
      <<Exe, <<Lit("--stun-server="), Ph("stun_ip"), Lit(":"), Ph("stun_port")>> >>,
      <<Exe, <<Ph("pid")>> >> }


\* ================================================================ state
VARIABLES
    check_retries,   \* Live777Runner.__check_retries
    cmd,             \* Live777Runner.__cmd
    live777_task,    \* Live777Runner.__live777_task: 0 (None) or a task id
    live777_proc,    \* Live777Runner.__live777_proc: 0 (None) or a process id
    tasks,           \* the supervisory tasks of the event loop
    procs,           \* the child processes of the host
    pc,              \* position of __run ("run") and of the final coroutine ("final")
    retry,           \* __run: the for-loop variable
    netcfg,          \* __run: netcfg
    prev_netcfg,     \* __run: prev_netcfg, None or Some(netcfg)
    lock,            \* holder of the start/stop guard
    queue,           \* callers waiting for the guard, first come first served
    killing,         \* the process each stop is awaiting kill_process() of
    cancel_req,      \* the outer loop was cancelled from outside
    assert_failed,   \* an assert statement of runner.py has failed
    iterPrev,        \* history: prev_netcfg when the current iteration began
    iterOps,         \* history: the starts and stops of the current iteration
    iterProbes,      \* history: the probes of the current iteration
    lastEvent,       \* history: the step taken last
    scen             \* history: how many completed iterations followed (A)(A)(B), or -1

supVars == <<check_retries, cmd, live777_task, live777_proc, tasks, procs, pc, retry,
             netcfg, prev_netcfg, lock, queue, killing, cancel_req, assert_failed,
             iterPrev, iterOps, iterProbes, lastEvent, scen>>

VARIABLES
    retries,     \* Stun.__retries
    w_pc,        \* __make_request: "idle", "recv" (inside recvfrom), "done"
    w_token,     \* secrets.token_bytes(12)
    w_req,       \* the payload req
    w_attempt,   \* the attempts made so far
    w_msgs,      \* history: the datagrams handed to sendto(), in order
    w_got,       \* history: what recvfrom() gave last, None or Some(datagram)
    w_error,     \* the error of the last attempt
    w_out,       \* None, or Some of what __make_request gave its caller
    w_rt         \* history: the address decodings made, original and decoded

wireVars == <<w_pc, w_token, w_req, w_attempt, w_msgs, w_got, w_error, w_out, w_rt>>

VARIABLES
    stun_ip,     \* Stun.__stun_ip, the address remembered across get_info calls
    sock,        \* Stun.__sock: FALSE (None) or TRUE (the socket of this call)
    g_pc,        \* get_info: "idle", "resolve_src", "resolve_stun", "dialogue",
                 \*   "returned", or "raised" when an exception left it
    g_src_ip,    \* get_info: the argument src_ip
    g_fam,       \* get_info: src_fam
    g_left,      \* __retried_getaddrinfo_udp: the local retries
    g_rs,        \* __get_nat_type: what its __make_request calls gave, in order
    g_ret,       \* None, or Some of the StunInfo get_info returned
    g_cause,     \* history: why the call failed inside, "" when it did not
    g_hist       \* history: Stun.__stun_ip when the call began (prev), and None or
                 \*   Some of what getaddrinfo returned for the STUN host (cands)

giVars == <<stun_ip, sock, g_pc, g_src_ip, g_fam, g_left, g_rs, g_ret, g_cause, g_hist>>

stunSide == <<retries, wireVars, giVars>>

\* ================================================================ supervisor
TaskIds == 1..MaxTasks
ProcIds == 1..MaxProcs
Callers == {"run", "final"}

NoTask == [st |-> "none", cfg |-> DefaultNetcfg, cancel |-> FALSE, p |-> 0,
           argv |-> <<>>, env |-> <<>>, launches |-> 0, pargv |-> <<>>, penv |-> <<>>]
NoProc == [st |-> "none", argv |-> <<>>, env |-> <<>>, cfg |-> DefaultNetcfg]

\* the suspension points of __live777_task_loop
TaskSuspended == {"created", "launch", "tail", "kill", "sleep"}
LiveTasks == {t \in TaskIds : tasks[t].st \in TaskSuspended}
AliveProcs == {p \in ProcIds : procs[p].st = "alive"}

FreeTask == CHOOSE t \in TaskIds : tasks[t].st = "none" /\ \A u \in TaskIds : tasks[u].st = "none" => t <= u
FreeProc == CHOOSE p \in ProcIds : procs[p].st = "none" /\ \A q \in ProcIds : procs[q].st = "none" => p <= q

\* ---- the network probe as the supervisor sees it
\* __get_default_ip(): an address, or "" when nothing is found or netifaces raises
DefaultIps == {"", "10.0.0.2"}

\* what Stun.get_info can report: (nat_type, ext_ip, stun_ip)
ProbeOutcomes == {<<"ERROR", "", "">>, <<"BLOCKED", "", "5.5.5.5">>,
                  <<"FULL_CONE_NAT", "1.2.3.4", "5.5.5.5">>}

\* the StunInfo get_info returns
GetInfoReturn(nat_type, src_ip, ext_ip, sticky_ip) ==
    StunInfo(nat_type, src_ip, ext_ip, StunHost, sticky_ip, StunPort)

MutGetNetcfgKeepEmpty(default_ip, o) == Netcfg(GetInfoReturn(o[1], default_ip, o[2], o[3]))
GetNetcfg(default_ip, o) ==
    LET src_ip == IF default_ip # "" THEN default_ip ELSE "0.0.0.0"
    IN  Netcfg(GetInfoReturn(o[1], src_ip, o[2], o[3]))

\* ---- the probe sequence (A)(A)(B), both with a non-empty src_ip
ScenA == GetNetcfg("10.0.0.2", <<"FULL_CONE_NAT", "1.2.3.4", "5.5.5.5">>)
ScenB == GetNetcfg("", <<"FULL_CONE_NAT", "1.2.3.4", "5.5.5.5">>)
ScenSeq == <<ScenA, ScenA, ScenB>>
ScenAdvance(k, cfg) ==
    IF k >= 0 /\ k < Len(ScenSeq) /\ cfg = ScenSeq[k + 1] THEN k + 1 ELSE -1

\* the probes made since the top of `while True`: how many, the address
\* __get_default_ip() gave the last one, what the last one returned, and whether
\* one was made after a probe that had returned a non-empty ext_ip
NoProbes == [n |-> 0, ip |-> "", last |-> None, afterExt |-> FALSE]
ProbeMade(h, ip, got) ==
    [n |-> h.n + 1, ip |-> ip, last |-> Some(got),
     afterExt |-> h.afterExt \/ (h.last # None /\ h.last[1].ext_ip # "")]

\* ---- initial state: after __init__, run() has scheduled __run
SupStart ==
    /\ live777_task = 0
    /\ live777_proc = 0
    /\ tasks = [t \in TaskIds |-> NoTask]
    /\ procs = [p \in ProcIds |-> NoProc]
    /\ pc = [c \in Callers |-> IF c = "run" THEN "top" ELSE "idle"]
    /\ retry = 0
    /\ netcfg = DefaultNetcfg
    /\ prev_netcfg = None
    /\ lock = "free"
    /\ queue = <<>>
    /\ killing = [c \in Callers |-> 0]
    /\ cancel_req = FALSE
    /\ assert_failed = FALSE
    /\ iterPrev = None
    /\ iterOps = <<>>
    /\ iterProbes = NoProbes
    /\ lastEvent = "init"
    /\ scen = 0

SupInit ==
    /\ check_retries \in 0..MaxCheckRetries
    /\ cmd = RunnerCmd
    /\ SupStart

\* ---- __run
\* range(1 if prev_netcfg is None else self.__check_retries)
MutProbeAttemptsAlwaysRetries(prev) == check_retries
ProbeAttempts(prev) == IF prev = None THEN 1 ELSE check_retries

\* netcfg != prev_netcfg
MutNetcfgChangedAddrsOnly(cfg, prev) ==
    prev = None \/ cfg.src_ip # prev[1].src_ip \/ cfg.ext_ip # prev[1].ext_ip
NetcfgChanged(cfg, prev) == Some(cfg) # prev

\* lines 105-115 up to the first suspension: call stop, or sleep check_interval
AfterProbes(cfg) ==
    IF NetcfgChanged(cfg, prev_netcfg)
    THEN /\ pc' = [pc EXCEPT !["run"] = "stop_wait"]
         /\ queue' = Append(queue, "run")
    ELSE /\ pc' = [pc EXCEPT !["run"] = "sleep"]
         /\ queue' = queue

\* the top of `while True` up to the first suspension
LoopTop ==
    /\ pc["run"] \in {"top", "sleep"}
    /\ ~cancel_req
    /\ retry' = 0
    /\ iterPrev' = prev_netcfg
    /\ iterOps' = <<>>
    /\ lastEvent' = "LoopTop"
    /\ scen' = IF pc["run"] = "sleep" THEN ScenAdvance(scen, netcfg) ELSE scen
    /\ IF ProbeAttempts(prev_netcfg) > 0
       THEN /\ netcfg' = DefaultNetcfg
            /\ pc' = [pc EXCEPT !["run"] = "probe"]
            /\ queue' = queue
       ELSE /\ netcfg' = DefaultNetcfg
            /\ AfterProbes(DefaultNetcfg)
    /\ iterProbes' = NoProbes
    /\ UNCHANGED <<stunSide, check_retries, cmd, live777_task, live777_proc, tasks, procs, prev_netcfg,
                   lock, killing, cancel_req, assert_failed>>

\* netcfg = await self.__get_netcfg(); if netcfg.ext_ip: break
Probe ==
    /\ pc["run"] = "probe"
    /\ ~cancel_req
    /\ \E ip \in DefaultIps, o \in ProbeOutcomes :
         LET got == GetNetcfg(ip, o)
         IN  /\ netcfg' = got
             /\ iterProbes' = ProbeMade(iterProbes, ip, got)
             /\ IF got.ext_ip # ""
                THEN AfterProbes(got)
                ELSE /\ pc' = [pc EXCEPT !["run"] = "retry_sleep"]
                     /\ queue' = queue
    /\ lastEvent' = "Probe"
    /\ UNCHANGED <<stunSide, check_retries, cmd, scen, live777_task, live777_proc, tasks, procs, retry,
                   prev_netcfg, lock, killing, cancel_req, assert_failed, iterPrev, iterOps>>

\* await asyncio.sleep(self.__check_retries_delay), then the next round of the for
RetrySleep ==
    /\ pc["run"] = "retry_sleep"
    /\ ~cancel_req
    /\ lastEvent' = "RetrySleep"
    /\ IF retry + 1 < ProbeAttempts(prev_netcfg)
       THEN /\ retry' = retry + 1
            /\ pc' = [pc EXCEPT !["run"] = "probe"]
            /\ queue' = queue
       ELSE /\ retry' = retry
            /\ AfterProbes(netcfg)
    /\ UNCHANGED <<stunSide, iterProbes, check_retries, cmd, scen, live777_task, live777_proc, tasks, procs, netcfg,
                   prev_netcfg, lock, killing, cancel_req, assert_failed, iterPrev, iterOps>>


\* ---- the guard of @aiotools.atomic_fg: one start or stop at a time, first come
\* ---- first served, and never abandoned when its caller is cancelled
GuardFree(c) == lock = "free" /\ queue # <<>> /\ Head(queue) = c

\* ---- __stop_live777
CollectDone(tks) == [t \in TaskIds |-> IF tks[t].st = "done" THEN NoTask ELSE tks[t]]

\* self.__live777_task = None
MutTaskHandleAfterStopKept(h) == h
TaskHandleAfterStop(h) == 0

\* self.__live777_proc = None, the last line of __kill_live777_proc
MutProcHandleAfterKillKept(h) == h
ProcHandleAfterKill(h) == 0

\* `self.__live777_task = None` and the return to the caller; q, tks, prs are the
\* guard's queue, the tasks and the processes as the stop leaves them
StopReturn(c, q, tks, prs, ev) ==
    /\ live777_proc' = ProcHandleAfterKill(live777_proc)
    /\ live777_task' = TaskHandleAfterStop(live777_task)
    /\ procs' = prs
    /\ tasks' = CollectDone(tks)
    /\ lock' = "free"
    /\ killing' = [killing EXCEPT ![c] = 0]
    /\ lastEvent' = ev
    /\ IF c = "final"
       THEN /\ pc' = [pc EXCEPT ![c] = "done"]
            /\ queue' = q
            /\ UNCHANGED <<prev_netcfg, iterOps>>
       ELSE /\ iterOps' = Append(iterOps, <<"stop">>)
            /\ IF cancel_req
               THEN /\ pc' = [pc EXCEPT ![c] = "cancelled"]
                    /\ queue' = q
                    /\ prev_netcfg' = prev_netcfg
               ELSE IF netcfg.src_ip # ""
               THEN /\ pc' = [pc EXCEPT ![c] = "start_wait"]
                    /\ queue' = Append(q, c)
                    /\ prev_netcfg' = prev_netcfg
               ELSE /\ pc' = [pc EXCEPT ![c] = "sleep"]
                    /\ queue' = q
                    /\ prev_netcfg' = Some(netcfg)

\* `await self.__kill_live777_proc()` as __stop_live777 calls it
MutStopKillProcSkipsKill(c, q, tks, ev) == StopReturn(c, q, tks, procs, ev)
StopKillProc(c, q, tks, ev) ==
    IF live777_proc # 0
    THEN /\ pc' = [pc EXCEPT ![c] = "stop_kill"]
         /\ killing' = [killing EXCEPT ![c] = live777_proc]
         /\ lock' = c
         /\ queue' = q
         /\ tasks' = tks
         /\ lastEvent' = "StopKillBegin"
         /\ UNCHANGED <<live777_task, live777_proc, procs, prev_netcfg, iterOps>>
    ELSE StopReturn(c, q, tks, procs, ev)

\* self.__live777_task.cancel()
MutCancelTaskForgets(tks, t) == tks
CancelTask(tks, t) ==
    IF tks[t].st \in TaskSuspended THEN [tks EXCEPT ![t].cancel = TRUE] ELSE tks

StopEnter(c) ==
    /\ pc[c] = "stop_wait"
    /\ GuardFree(c)
    /\ IF live777_task # 0
       THEN /\ tasks' = CancelTask(tasks, live777_task)
            /\ pc' = [pc EXCEPT ![c] = "stop_gather"]
            /\ lock' = c
            /\ queue' = Tail(queue)
            /\ lastEvent' = "StopCancel"
            /\ UNCHANGED <<live777_task, live777_proc, procs, prev_netcfg, iterOps, killing>>
       ELSE StopKillProc(c, Tail(queue), tasks, "StopReturn")
    /\ UNCHANGED <<stunSide, iterProbes, check_retries, cmd, scen, retry, netcfg, cancel_req, assert_failed, iterPrev>>

\* await asyncio.gather(self.__live777_task, return_exceptions=True)
MutGatherDoneAlways(t) == TRUE
GatherDone(t) == tasks[t].st \notin TaskSuspended

StopGather(c) ==
    /\ pc[c] = "stop_gather"
    /\ GatherDone(live777_task)
    /\ StopKillProc(c, queue, tasks, "StopReturn")
    /\ UNCHANGED <<stunSide, iterProbes, check_retries, cmd, scen, retry, netcfg, cancel_req, assert_failed, iterPrev>>

\* aioproc.kill_process(proc, 5, logger) is over: the process is dead and reaped
StopKill(c) ==
    /\ pc[c] = "stop_kill"
    /\ StopReturn(c, queue, tasks, [procs EXCEPT ![killing[c]] = NoProc], "StopReturnKilled")
    /\ UNCHANGED <<stunSide, iterProbes, check_retries, cmd, scen, retry, netcfg, cancel_req, assert_failed, iterPrev>>

\* ---- __start_live777
NewTask(cfg) == [NoTask EXCEPT !.st = "created", !.cfg = cfg]

Start ==
    /\ pc["run"] = "start_wait"
    /\ GuardFree("run")
    /\ queue' = Tail(queue)
    /\ lastEvent' = "Start"
    /\ IF live777_task # 0
       THEN /\ assert_failed' = TRUE
            /\ pc' = [pc EXCEPT !["run"] = "crashed"]
            /\ UNCHANGED <<live777_task, tasks, prev_netcfg, iterOps>>
       ELSE /\ \E t \in TaskIds : tasks[t].st = "none"
            /\ tasks' = [tasks EXCEPT ![FreeTask] = NewTask(netcfg)]
            /\ live777_task' = FreeTask
            /\ iterOps' = Append(iterOps, <<"start", netcfg>>)
            /\ assert_failed' = assert_failed
            /\ IF cancel_req
               THEN /\ pc' = [pc EXCEPT !["run"] = "cancelled"]
                    /\ prev_netcfg' = prev_netcfg
               ELSE /\ pc' = [pc EXCEPT !["run"] = "sleep"]
                    /\ prev_netcfg' = Some(netcfg)
    /\ UNCHANGED <<stunSide, iterProbes, check_retries, cmd, scen, live777_proc, procs, retry, netcfg, lock, killing,
                   cancel_req, iterPrev>>


\* ---- __live777_task_loop
\* the `except Exception` handler up to its first suspension:
\* `await self.__kill_live777_proc()`, then `await asyncio.sleep(1)`
Handler(t, tk) ==
    IF live777_proc # 0
    THEN /\ tasks' = [tasks EXCEPT ![t] = [tk EXCEPT !.st = "kill", !.p = live777_proc]]
         /\ live777_proc' = live777_proc
    ELSE /\ tasks' = [tasks EXCEPT ![t] = [tk EXCEPT !.st = "sleep", !.p = 0]]
         /\ live777_proc' = 0

\* the netcfg a launch is rendered from: the parameter of __live777_task_loop
MutLaunchNetcfgCurrent(t) == netcfg
LaunchNetcfg(t) == tasks[t].cfg

\* the top of `while True`: __start_live777_proc() up to `await aioproc.run_process()`
TaskRun(t) ==
    /\ tasks[t].st \in {"created", "sleep"}
    /\ ~tasks[t].cancel
    /\ lastEvent' = "TaskRun"
    /\ IF live777_proc # 0
       THEN /\ assert_failed' = TRUE
            /\ Handler(t, tasks[t])
       ELSE IF FormatRaises(cmd)
       THEN /\ assert_failed' = assert_failed
            /\ Handler(t, tasks[t])
       ELSE /\ assert_failed' = assert_failed
            /\ live777_proc' = live777_proc
            /\ tasks' = [tasks EXCEPT ![t] =
                           [@ EXCEPT !.st = "launch",
                                     !.argv = RenderCmd(cmd, LaunchNetcfg(t)),
                                     !.env = RenderEnv(LaunchNetcfg(t)),
                                     !.pargv = tasks[t].argv,
                                     !.penv = tasks[t].env,
                                     !.launches = IF @ = 0 THEN 1 ELSE 2]]
    /\ UNCHANGED <<stunSide, iterProbes, check_retries, cmd, scen, live777_task, procs, pc, retry, netcfg, prev_netcfg,
                   lock, queue, killing, cancel_req, iterPrev, iterOps>>

\* run_process() returned the new process; the tail of its stdout begins
TaskLaunchOk(t) ==
    /\ tasks[t].st = "launch"
    /\ ~tasks[t].cancel
    /\ \E p \in ProcIds : procs[p].st = "none"
    /\ procs' = [procs EXCEPT ![FreeProc] =
                   [st |-> "alive", argv |-> tasks[t].argv, env |-> tasks[t].env,
                    cfg |-> tasks[t].cfg]]
    /\ live777_proc' = FreeProc
    /\ tasks' = [tasks EXCEPT ![t] = [@ EXCEPT !.st = "tail", !.p = FreeProc]]
    /\ lastEvent' = "TaskLaunchOk"
    /\ UNCHANGED <<stunSide, iterProbes, check_retries, cmd, scen, live777_task, pc, retry, netcfg, prev_netcfg,
                   lock, queue, killing, cancel_req, assert_failed, iterPrev, iterOps>>

\* run_process() (or the formatting before it) raised
TaskLaunchFail(t) ==
    /\ tasks[t].st = "launch"
    /\ ~tasks[t].cancel
    /\ Handler(t, tasks[t])
    /\ lastEvent' = "TaskLaunchFail"
    /\ UNCHANGED <<stunSide, iterProbes, check_retries, cmd, scen, live777_task, procs, pc, retry, netcfg, prev_netcfg,
                   lock, queue, killing, cancel_req, assert_failed, iterPrev, iterOps>>

\* log_stdout_infinite() returned: the child is gone; RuntimeError("unexpectedly died")
TaskTailEnd(t) ==
    /\ tasks[t].st = "tail"
    /\ ~tasks[t].cancel
    /\ procs[tasks[t].p].st # "alive"
    /\ Handler(t, tasks[t])
    /\ lastEvent' = "TaskTailEnd"
    /\ UNCHANGED <<stunSide, iterProbes, check_retries, cmd, scen, live777_task, procs, pc, retry, netcfg, prev_netcfg,
                   lock, queue, killing, cancel_req, assert_failed, iterPrev, iterOps>>

\* kill_process() of the handler is over; `self.__live777_proc = None`; sleep(1) begins
TaskKillDone(t) ==
    /\ tasks[t].st = "kill"
    /\ ~tasks[t].cancel
    /\ procs' = [procs EXCEPT ![tasks[t].p] = NoProc]
    /\ live777_proc' = ProcHandleAfterKill(live777_proc)
    /\ tasks' = [tasks EXCEPT ![t] = [@ EXCEPT !.st = "sleep", !.p = 0]]
    /\ lastEvent' = "TaskKillDone"
    /\ UNCHANGED <<stunSide, iterProbes, check_retries, cmd, scen, live777_task, pc, retry, netcfg, prev_netcfg,
                   lock, queue, killing, cancel_req, assert_failed, iterPrev, iterOps>>

\* CancelledError is delivered at the task's suspension point: the loop breaks
TaskCancelled(t) ==
    /\ tasks[t].st \in TaskSuspended
    /\ tasks[t].cancel
    /\ tasks' = [tasks EXCEPT ![t] = [@ EXCEPT !.st = "done"]]
    /\ lastEvent' = "TaskCancelled"
    /\ UNCHANGED <<stunSide, iterProbes, check_retries, cmd, scen, live777_task, live777_proc, procs, pc, retry, netcfg,
                   prev_netcfg, lock, queue, killing, cancel_req, assert_failed, iterPrev,
                   iterOps>>

\* ---- the environment
\* a child exits by itself, with any exit code
ChildExit(p) ==
    /\ procs[p].st = "alive"
    /\ procs' = [procs EXCEPT ![p].st = "exited"]
    /\ lastEvent' = "ChildExit"
    /\ UNCHANGED <<stunSide, iterProbes, check_retries, cmd, scen, live777_task, live777_proc, tasks, pc, retry, netcfg,
                   prev_netcfg, lock, queue, killing, cancel_req, assert_failed, iterPrev,
                   iterOps>>

\* run() is cancelled from outside (SIGINT, SIGTERM)
ExternalCancel ==
    /\ ~cancel_req
    /\ cancel_req' = TRUE
    /\ lastEvent' = "ExternalCancel"
    /\ UNCHANGED <<stunSide, iterProbes, check_retries, cmd, scen, live777_task, live777_proc, tasks, procs, pc, retry,
                   netcfg, prev_netcfg, lock, queue, killing, assert_failed, iterPrev, iterOps>>

\* the cancellation reaches __run at a suspension point outside start and stop
RunCancelled ==
    /\ cancel_req
    /\ pc["run"] \in {"top", "probe", "retry_sleep", "sleep"}
    /\ pc' = [pc EXCEPT !["run"] = "cancelled"]
    /\ lastEvent' = "RunCancelled"
    /\ UNCHANGED <<stunSide, iterProbes, check_retries, cmd, scen, live777_task, live777_proc, tasks, procs, retry,
                   netcfg, prev_netcfg, lock, queue, killing, cancel_req, assert_failed,
                   iterPrev, iterOps>>

\* aiotools.run(self.__run(), self.__stop_live777()): the final stop is called
FinalBegin ==
    /\ cancel_req
    /\ pc["final"] = "idle"
    /\ pc' = [pc EXCEPT !["final"] = "stop_wait"]
    /\ queue' = Append(queue, "final")
    /\ lastEvent' = "FinalBegin"
    /\ UNCHANGED <<stunSide, iterProbes, check_retries, cmd, scen, live777_task, live777_proc, tasks, procs, retry,
                   netcfg, prev_netcfg, lock, killing, cancel_req, assert_failed,
                   iterPrev, iterOps>>


\* ================================================================ STUN wire
\* ---- bytes
RECURSIVE XorBits(_, _, _)
XorBits(a, b, n) ==
    IF n = 0 THEN 0 ELSE ((a + b) % 2) + 2 * XorBits(a \div 2, b \div 2, n - 1)

\* a ^ b on bytes
XorByte(a, b) == XorBits(a, b, 8)

\* struct.pack(">H", n)
U16(n) == <<(n \div 256) % 256, n % 256>>
\* struct.pack(">I", n)
U32(n) == U16(n \div 65536) \o U16(n % 65536)
\* struct.unpack(">H", b) and int.from_bytes(b, "big") of two bytes
FromU16(b) == b[1] * 256 + b[2]

\* b[i:j] of Python: clipped to the bytes there are
Slice(b, i, j) == SubSeq(b, i + 1, IF j < Len(b) THEN j ELSE Len(b))
SliceFrom(b, i) == SubSeq(b, i + 1, Len(b))

\* b"\x21\x12\xA4\x42"
Magic == <<33, 18, 164, 66>>

\* ---- the request
\* trans_id = b"\x21\x12\xA4\x42" + secrets.token_bytes(12)
TransId(token) == Magic \o token

\* struct.pack(">HHI", 0x0003, 0x0004, flags)
ChangeRequest(flags) == U16(3) \o U16(4) \o U32(flags)

\* msg = struct.pack(">HHH", 0x0001, len(req), 0x2112) + trans_id + req
PackRequest(trans_id, req) == U16(1) \o U16(Len(req)) \o U16(8466) \o trans_id \o req

\* ---- the response
\* the checks of __inner_make_request on what recvfrom() gave: None is a timeout
\* or a socket error; returns (data[20:], "") or (b"", error)
MutInnerCheckNoTransId(trans_id, got) ==
    IF got = None THEN [data |-> <<>>, error |-> "timed out"]
    ELSE IF Len(got[1]) < 20 THEN [data |-> <<>>, error |-> "Response is too short"]
    ELSE IF Slice(got[1], 0, 2) # <<1, 1>> THEN [data |-> <<>>, error |-> "Invalid response type"]
    ELSE [data |-> SliceFrom(got[1], 20), error |-> ""]
InnerCheck(trans_id, got) ==
    IF got = None THEN [data |-> <<>>, error |-> "timed out"]
    ELSE IF Len(got[1]) < 20 THEN [data |-> <<>>, error |-> "Response is too short"]
    ELSE IF Slice(got[1], 0, 2) # <<1, 1>> THEN [data |-> <<>>, error |-> "Invalid response type"]
    ELSE IF Slice(got[1], 4, 20) # trans_id THEN [data |-> <<>>, error |-> "Transaction ID mismatch"]
    ELSE [data |-> SliceFrom(got[1], 20), error |-> ""]

\* ---- __trans_xor
\* xor = (magic + trans_id) * (len(data) // len(magic + trans_id) + 1)
XorMask(trans_id, n) ==
    LET unit == Magic \o trans_id
    IN  [i \in 1..n |-> unit[((i - 1) % Len(unit)) + 1]]

MutTransXorNone(data, trans_id) == data
TransXor(data, trans_id) ==
    IF trans_id = <<>> THEN data
    ELSE LET mask == XorMask(trans_id, Len(data))
         IN  [i \in 1..Len(data) |-> XorByte(data[i], mask[i])]

\* ---- str(ipaddress.IPv4Address(...)), str(ipaddress.IPv6Address(...))
RECURSIVE Join(_)
Join(atoms) == IF atoms = <<>> THEN "" ELSE Head(atoms) \o Join(Tail(atoms))

RECURSIVE JoinWith(_, _)
JoinWith(strs, sep) ==
    IF strs = <<>> THEN ""
    ELSE IF Len(strs) = 1 THEN strs[1]
    ELSE strs[1] \o sep \o JoinWith(Tail(strs), sep)

Ipv4Text(b) == JoinWith([i \in 1..4 |-> Join(StrInt(b[i]))], ".")

HexAtom(d) == <<"0", "1", "2", "3", "4", "5", "6", "7", "8", "9",
                "a", "b", "c", "d", "e", "f">>[d + 1]
RECURSIVE HexText(_)
HexText(n) == IF n < 16 THEN HexAtom(n) ELSE HexText(n \div 16) \o HexAtom(n % 16)

Hextets(b) == [i \in 1..8 |-> b[2 * i - 1] * 256 + b[2 * i]]

\* the length of the run of zero hextets that starts at i
RECURSIVE ZeroRun(_, _)
ZeroRun(h, i) == IF i > Len(h) \/ h[i] # 0 THEN 0 ELSE 1 + ZeroRun(h, i + 1)

\* the first of the longest runs of zero hextets is written "::" when longer than one
Ipv6Text(b) ==
    LET h == Hextets(b)
        best == CHOOSE i \in 1..8 :
                    /\ \A j \in 1..8 : ZeroRun(h, j) <= ZeroRun(h, i)
                    /\ \A j \in 1..(i - 1) : ZeroRun(h, j) < ZeroRun(h, i)
        n == ZeroRun(h, best)
        hex(lo, hi) == JoinWith([i \in 1..(hi - lo + 1) |-> HexText(h[lo + i - 1])], ":")
    IN  IF n > 1
        THEN hex(1, best - 1) \o "::" \o hex(best + n, 8)
        ELSE hex(1, 8)

\* ---- __parse_address: [raised, addr]
StunAddress(ip, port) == [ip |-> ip, port |-> port]
Raised == [raised |-> TRUE, addr |-> StunAddress("", 0)]

ParseAddress(data, trans_id) ==
    IF Len(data) < 4 THEN Raised
    ELSE IF data[2] \notin {1, 2} THEN Raised
    ELSE LET port == FromU16(TransXor(Slice(data, 2, 4), trans_id))
         IN  IF data[2] = 1
             THEN IF Len(data) < 8 THEN Raised
                  ELSE [raised |-> FALSE,
                        addr |-> StunAddress(Ipv4Text(TransXor(Slice(data, 4, 8), trans_id)), port)]
             ELSE IF Len(data) < 20 THEN Raised
                  ELSE [raised |-> FALSE,
                        addr |-> StunAddress(Ipv6Text(TransXor(Slice(data, 4, 20), trans_id)), port)]

\* ---- _StunResponse and the attribute walk of __make_request
StunResponse(ok, ext, src, changed) == [ok |-> ok, ext |-> ext, src |-> src, changed |-> changed]
FailedResponse == StunResponse(FALSE, None, None, None)

\* what a call of __make_request gives its caller: a response, or an exception
Returned(resp) == [raised |-> FALSE, resp |-> resp]
RaisedOut == [raised |-> TRUE, resp |-> FailedResponse]

\* the dict that maps an attribute type to a field of _StunResponse
AttrField(attr_type) ==
    IF attr_type \in {1, 32} THEN "ext"
    ELSE IF attr_type = 4 THEN "src"
    ELSE IF attr_type = 5 THEN "changed"
    ELSE "none"

\* the `while remaining > 0` loop; parsed is the dict collected so far
RECURSIVE ParseAttrs(_, _, _, _, _)
ParseAttrs(resp, trans_id, offset, remaining, parsed) ==
    IF remaining <= 0
    THEN Returned(StunResponse(TRUE, parsed.ext, parsed.src, parsed.changed))
    ELSE LET hdr == Slice(resp, offset, offset + 4)
         IN  IF Len(hdr) < 4 THEN RaisedOut
             ELSE LET attr_type == FromU16(Slice(hdr, 0, 2))
                      attr_len == FromU16(Slice(hdr, 2, 4))
                      field == AttrField(attr_type)
                      pa == ParseAddress(SliceFrom(resp, offset + 4),
                                         IF attr_type = 32 THEN trans_id ELSE <<>>)
                  IN  IF field # "none" /\ pa.raised THEN RaisedOut
                      ELSE ParseAttrs(resp, trans_id, offset + 4 + attr_len,
                                      remaining - (4 + attr_len),
                                      IF field = "none" THEN parsed
                                      ELSE [parsed EXCEPT ![field] = Some(pa.addr)])

NothingParsed == [ext |-> None, src |-> None, changed |-> None]

\* the end of __make_request, after the retry loop left (resp, error)
MakeRequestResult(resp, error, trans_id) ==
    IF error # "" THEN Returned(FailedResponse)
    ELSE ParseAttrs(resp, trans_id, 0, Len(resp), NothingParsed)

\* ---- one logical request on the wire, attempt by attempt
\* largest configured retries
MaxRetries == 2

Tokens == { [i \in 1..12 |-> 0], [i \in 1..12 |-> i], [i \in 1..12 |-> 255 - 16 * i] }
Payloads == { <<>>, ChangeRequest(6), ChangeRequest(2) }

WireIdle ==
    /\ w_pc = "idle"
    /\ w_token = [i \in 1..12 |-> 0]
    /\ w_req = <<>>
    /\ w_attempt = 0
    /\ w_msgs = <<>>
    /\ w_got = None
    /\ w_error = ""
    /\ w_out = None
    /\ w_rt = None

\* ---- what the network can hand to recvfrom()
\* an address attribute: type, length, reserved, family, port, address
Attr(attr_type, body) == U16(attr_type) \o U16(Len(body)) \o body
AddrBody(fam, port, addr) == <<0, fam>> \o U16(port) \o addr

\* XOR-MAPPED-ADDRESS as a server builds it: the port XOR 0x2112, the address
\* XOR the magic cookie followed by the 12-byte transaction id
XorSeq(b, mask) == [i \in 1..Len(b) |-> XorByte(b[i], mask[i])]
XorAddrBody(fam, port, addr, token) ==
    <<0, fam>> \o XorSeq(U16(port), Magic) \o XorSeq(addr, Magic \o token)

V4a == <<1, 2, 3, 4>>
V4b == <<192, 168, 0, 1>>
V6a == <<32, 1, 13, 184, 0, 0, 0, 0, 0, 0, 0, 0, 0, 0, 0, 1>>
V6b == <<254, 128, 0, 0, 0, 0, 0, 0, 2, 0, 94, 255, 254, 0, 83, 1>>
Addrs == { [fam |-> 1, bytes |-> V4a], [fam |-> 1, bytes |-> V4b],
           [fam |-> 2, bytes |-> V6a], [fam |-> 2, bytes |-> V6b] }
Ports == {0, 3478, 8466, 65535}

AddrText(a) == IF a.fam = 1 THEN Ipv4Text(a.bytes) ELSE Ipv6Text(a.bytes)

\* attribute sections of a Binding Success: well-formed and malformed ones
Bodies(token) ==
    { <<>>,
      Attr(1, AddrBody(1, 6000, V4a)) \o Attr(4, AddrBody(1, 3478, V4b))
          \o Attr(5, AddrBody(1, 3479, V4b)),
      Attr(32, XorAddrBody(1, 6000, V4a, token)),
      Attr(1, AddrBody(1, 6000, V4a)) \o Attr(32, XorAddrBody(1, 6001, V4b, token)),
      Attr(32802, <<1, 2, 3, 4>>) \o Attr(1, AddrBody(2, 6000, V6a)),
      Attr(1, AddrBody(3, 6000, V4a)),
      Attr(1, <<0, 1, 23, 112>>),
      Attr(1, <<0, 1, 23, 112>>) \o Attr(4, AddrBody(1, 3478, V4b)),
      <<0, 1, 0>> }

\* the datagrams a request msg can be answered with
Replies(msg, token) ==
    UNION { { <<1, 1>> \o U16(Len(b)) \o Slice(msg, 4, 20) \o b,       \* echo of bytes 4..20
              <<1, 1>> \o U16(Len(b)) \o TransId(token) \o b,          \* cookie and token
              <<1, 17>> \o U16(Len(b)) \o TransId(token) \o b,         \* an error response
              <<1, 1>> \o U16(Len(b)) \o Magic \o [i \in 1..12 |-> 7] \o b }   \* another id
            : b \in Bodies(token) }
    \cup { <<1, 1, 0, 0>> }

\* everything recvfrom() can give in the model: None is a timeout or an OSError
Datagrams ==
    {None} \cup {Some(d) : d \in UNION {Replies(PackRequest(TransId(t), r), t) :
                                           t \in Tokens, r \in Payloads}}

\* ---- __make_request and __inner_make_request
\* sendto(msg, addr) of one attempt
SendAttempt == Append(w_msgs, PackRequest(TransId(w_token), w_req))

\* `for _ in range(self.__retries)`: is there another attempt after n of them
MutMoreAttemptsOneMore(n) == n <= retries
MoreAttempts(n) == n < retries

\* __make_request is called: the transaction id is drawn; the first attempt sends
WireCall(token, req) ==
    /\ w_pc = "idle"
    /\ w_token' = token
    /\ w_req' = req
    /\ IF MoreAttempts(0)
       THEN /\ w_pc' = "recv"
            /\ w_attempt' = 1
            /\ w_msgs' = Append(w_msgs, PackRequest(TransId(token), req))
            /\ w_out' = None
       ELSE /\ w_pc' = "done"
            /\ w_attempt' = 0
            /\ w_msgs' = w_msgs
            /\ w_out' = Some(MakeRequestResult(<<>>, "", TransId(token)))
    /\ UNCHANGED <<supVars, retries, giVars, w_got, w_error, w_rt>>

\* recvfrom() returned or raised; the attempt is judged; the loop goes on or ends
WireRecv(got) ==
    /\ w_pc = "recv"
    /\ got \in {None} \cup {Some(d) : d \in Replies(w_msgs[Len(w_msgs)], w_token)}
    /\ w_got' = got
    /\ LET r == InnerCheck(TransId(w_token), got)
       IN  /\ w_error' = r.error
           /\ IF r.error # "" /\ MoreAttempts(w_attempt)
              THEN /\ w_pc' = "recv"
                   /\ w_attempt' = w_attempt + 1
                   /\ w_msgs' = SendAttempt
                   /\ w_out' = None
              ELSE /\ w_pc' = "done"
                   /\ w_attempt' = w_attempt
                   /\ w_msgs' = w_msgs
                   /\ w_out' = Some(MakeRequestResult(r.data, r.error, TransId(w_token)))
    /\ UNCHANGED <<supVars, retries, giVars, w_token, w_req, w_rt>>

\* __parse_address on an address attribute a server encoded for this request
WireDecode(a, port, xored) ==
    /\ w_pc = "done"
    /\ w_rt = None
    /\ w_rt' = Some([orig |-> StunAddress(AddrText(a), port),
                     xored |-> xored,
                     decoded |-> IF xored
                                 THEN ParseAddress(XorAddrBody(a.fam, port, a.bytes, w_token),
                                                   TransId(w_token))
                                 ELSE ParseAddress(AddrBody(a.fam, port, a.bytes), <<>>)])
    /\ UNCHANGED <<supVars, retries, giVars, w_pc, w_token, w_req, w_attempt, w_msgs, w_got, w_error, w_out>>

WireNext ==
    \/ \E token \in Tokens, req \in Payloads : WireCall(token, req)
    \/ \E got \in Datagrams : WireRecv(got)
    \/ \E a \in Addrs, port \in Ports, xored \in BOOLEAN : WireDecode(a, port, xored)

\* ================================================================= get_info
\* ---- __get_nat_type
\* addr_t of __make_request: a _StunAddress gives (ip, port), a str gives (str, self.__port)
AddrOfStunAddress(a) == <<a.ip, a.port>>
AddrOfStr(ip) == <<ip, StunPort>>
Request(addr_t, req) == [ip |-> addr_t[1], port |-> addr_t[2], req |-> req]

\* first.ext is not None and first.ext.ip == src_ip
NotNatted(first, src_ip) == first.ext # None /\ first.ext[1].ip = src_ip

\* resp.ext == first.ext
MutSameMappingIpOnly(resp, first) ==
    \/ resp.ext = first.ext
    \/ resp.ext # None /\ first.ext # None /\ resp.ext[1].ip = first.ext[1].ip
SameMapping(resp, first) == resp.ext = first.ext

DialoguePending(sent) ==
    [state |-> "pending", nat_type |-> "ERROR", resp |-> FailedResponse, sent |-> sent]
DialogueRaised(sent) ==
    [state |-> "raised", nat_type |-> "ERROR", resp |-> FailedResponse, sent |-> sent]
DialogueDone(nat_type, resp, sent) ==
    [state |-> "done", nat_type |-> nat_type, resp |-> resp, sent |-> sent]

\* __get_nat_type(src_ip) after its __make_request calls gave rs, in order: the
\* requests sent so far, and whether it waits for the next, returned or raised
Dialogue(src_ip, sip, rs) ==
    LET n == Len(rs)
        q1 == <<Request(AddrOfStr(sip), <<>>)>>
        q2 == Append(q1, Request(AddrOfStr(sip), ChangeRequest(6)))
    IN  IF n = 0 THEN DialoguePending(q1)
        ELSE IF rs[1].raised THEN DialogueRaised(q1)
        ELSE IF ~rs[1].resp.ok THEN DialogueDone("BLOCKED", rs[1].resp, q1)
        ELSE IF n = 1 THEN DialoguePending(q2)
        ELSE IF rs[2].raised THEN DialogueRaised(q2)
        ELSE LET first == rs[1].resp
                 resp2 == rs[2].resp
             IN  IF NotNatted(first, src_ip)
                 THEN IF resp2.ok THEN DialogueDone("OPEN_INTERNET", resp2, q2)
                      ELSE DialogueDone("SYMMETRIC_UDP_FW", resp2, q2)
                 ELSE IF resp2.ok THEN DialogueDone("FULL_CONE_NAT", resp2, q2)
                 ELSE IF first.changed = None THEN DialogueRaised(q2)
                 ELSE LET q3 == Append(q2, Request(AddrOfStunAddress(first.changed[1]), <<>>))
                          q4 == Append(q3, Request(AddrOfStr(first.changed[1].ip), ChangeRequest(2)))
                      IN  IF n = 2 THEN DialoguePending(q3)
                          ELSE IF rs[3].raised THEN DialogueRaised(q3)
                          ELSE IF ~rs[3].resp.ok
                          THEN DialogueDone("CHANGED_ADDR_ERROR", rs[3].resp, q3)
                          ELSE IF ~SameMapping(rs[3].resp, first)
                          THEN DialogueDone("SYMMETRIC_NAT", rs[3].resp, q3)
                          ELSE IF n = 3 THEN DialoguePending(q4)
                          ELSE IF rs[4].raised THEN DialogueRaised(q4)
                          ELSE IF rs[4].resp.ok
                          THEN DialogueDone("RESTRICTED_NAT", rs[4].resp, q4)
                          ELSE DialogueDone("RESTRICTED_PORT_NAT", rs[4].resp, q4)

\* ---- what the environment of one get_info call can be
SrcIps == {"10.0.0.2", "0.0.0.0", "fd00::2"}
\* the family getaddrinfo reports for a literal address
FamOf(ip) == IF ip = "fd00::2" THEN "AF_INET6" ELSE "AF_INET"

Cand(fam, ip) == [fam |-> fam, ip |-> ip]
\* what getaddrinfo(self.__host, self.__port) can return
StunCandidates ==
    { <<Cand("AF_INET", "5.5.5.5")>>,
      <<Cand("AF_INET", "5.5.5.7"), Cand("AF_INET", "5.5.5.5")>>,
      <<Cand("AF_INET6", "2001:db8::5"), Cand("AF_INET", "5.5.5.7")>>,
      <<Cand("AF_INET6", "2001:db8::5")>> }

ExtSame == StunAddress("10.0.0.2", 5000)
Ext1 == StunAddress("1.2.3.4", 6000)
Ext2 == StunAddress("1.2.3.4", 6001)
Changed1 == StunAddress("5.5.5.6", 3479)

\* what one __make_request call can give __get_nat_type
Outcomes ==
    {RaisedOut, Returned(FailedResponse)}
    \cup {Returned(StunResponse(TRUE, e, None, c)) :
            e \in {None, Some(ExtSame), Some(Ext1), Some(Ext2)}, c \in {None, Some(Changed1)}}

\* with self.__retries = n: range(0) sends nothing, leaves error = "" and resp = b"",
\* and the call returns _StunResponse(ok=True) with no attribute
OutcomesFor(n) ==
    IF n = 0 THEN {Returned(StunResponse(TRUE, None, None, None))} ELSE Outcomes

\* how far below zero the model follows the local retries of a lookup that
\* keeps failing
MaxSpin == 2

\* ---- get_info
\* the exception each failure raises inside get_info
ExcType(cause) ==
    IF cause \in {"resolve"} THEN "socket.gaierror"
    ELSE IF cause = "bind" THEN "OSError"
    ELSE IF cause = "parse" THEN "struct.error or RuntimeError"
    ELSE "RuntimeError"

\* except Exception as ex
MutCatchesRuntimeErrorOnly(exc_type) == exc_type = "RuntimeError"
Catches(exc_type) == TRUE

\* ext_ip = (resp.ext.ip if resp.ext is not None else "")
ExtIpOf(resp) == IF resp.ext # None THEN resp.ext[1].ip ELSE ""

\* (nat_type, resp) = await self.__get_nat_type(src_ip); ext_ip from that resp;
\* d is what the dialogue gave, rs the outcomes of its requests
MutReturnedExtIpOfFirst(d, rs) == ExtIpOf(rs[1].resp)
ReturnedExtIp(d, rs) == ExtIpOf(d.resp)

\* an exception is raised inside the try: the except clause, finally, the return
GetInfoExcept(cause, sip) ==
    /\ sock' = FALSE
    /\ stun_ip' = sip
    /\ g_cause' = cause
    /\ IF Catches(ExcType(cause))
       THEN /\ g_pc' = "returned"
            /\ g_ret' = Some(GetInfoReturn("ERROR", g_src_ip, "", sip))
       ELSE /\ g_pc' = "raised"
            /\ g_ret' = None

GetInfoCall(src_ip) ==
    /\ g_pc \in {"idle", "returned"}
    /\ g_pc' = "resolve_src"
    /\ g_src_ip' = src_ip
    /\ g_fam' = ""
    /\ g_left' = retries
    /\ g_rs' = <<>>
    /\ g_ret' = None
    /\ g_cause' = ""
    /\ g_hist' = [prev |-> stun_ip, cands |-> None]
    /\ UNCHANGED <<supVars, retries, wireVars, stun_ip, sock>>

\* getaddrinfo(src_ip, src_port) returned: (src_fam, _, _, _, src_addr) = ...[0]
ResolveSrcOk ==
    /\ g_pc = "resolve_src"
    /\ g_fam' = FamOf(g_src_ip)
    /\ g_pc' = "resolve_stun"
    /\ g_left' = retries
    /\ UNCHANGED <<supVars, retries, wireVars, stun_ip, sock, g_src_ip, g_rs, g_ret, g_cause, g_hist>>

\* getaddrinfo raised: retries -= 1; if retries == 0: raise; else sleep and retry
ResolveFail ==
    /\ g_pc \in {"resolve_src", "resolve_stun"}
    /\ g_left - 1 >= -MaxSpin
    /\ g_left' = g_left - 1
    /\ IF g_left - 1 = 0
       THEN GetInfoExcept("resolve", stun_ip)
       ELSE UNCHANGED <<stun_ip, sock, g_pc, g_ret, g_cause>>
    /\ UNCHANGED <<supVars, retries, wireVars, g_src_ip, g_fam, g_rs, g_hist>>

\* if not self.__stun_ip or self.__stun_ip not in stun_ips: self.__stun_ip = stun_ips[0]
MutStickyIpAlwaysFirst(remembered, stun_ips) == stun_ips[1]
StickyIp(remembered, stun_ips) ==
    IF remembered = "" \/ ~(\E i \in 1..Len(stun_ips) : stun_ips[i] = remembered)
    THEN stun_ips[1]
    ELSE remembered

\* getaddrinfo(self.__host, self.__port) returned cands; the family filter, the
\* remembered address, the socket and its bind
ResolveStunOk(cands, bind_ok) ==
    /\ g_pc = "resolve_stun"
    /\ LET match(c) == c.fam = g_fam
           stun_ips == [i \in 1..Len(SelectSeq(cands, match)) |-> SelectSeq(cands, match)[i].ip]
           sip == StickyIp(stun_ip, stun_ips)
       IN  IF stun_ips = <<>>
           THEN GetInfoExcept("nofamily", stun_ip)
           ELSE IF ~bind_ok
           THEN GetInfoExcept("bind", sip)
           ELSE /\ stun_ip' = sip
                /\ sock' = TRUE
                /\ g_pc' = "dialogue"
                /\ UNCHANGED <<g_ret, g_cause>>
    /\ UNCHANGED <<supVars, retries, wireVars, g_src_ip, g_fam, g_left, g_rs>>
    /\ g_hist' = [g_hist EXCEPT !.cands = Some(cands)]

\* a __make_request call of __get_nat_type is over with outcome o
MakeRequestDone(o) ==
    /\ g_pc = "dialogue"
    /\ g_rs' = Append(g_rs, o)
    /\ LET d == Dialogue(g_src_ip, stun_ip, Append(g_rs, o))
       IN  IF d.state = "pending"
           THEN UNCHANGED <<stun_ip, sock, g_pc, g_ret, g_cause>>
           ELSE IF d.state = "raised"
           THEN GetInfoExcept(IF o.raised THEN "parse" ELSE "nochanged", stun_ip)
           ELSE /\ sock' = FALSE
                /\ g_pc' = "returned"
                /\ g_ret' = Some(GetInfoReturn(d.nat_type, g_src_ip, ReturnedExtIp(d, Append(g_rs, o)), stun_ip))
                /\ UNCHANGED <<stun_ip, g_cause>>
    /\ UNCHANGED <<supVars, retries, wireVars, g_src_ip, g_fam, g_left, g_hist>>

GiNext ==
    \/ \E src_ip \in SrcIps : GetInfoCall(src_ip)
    \/ ResolveSrcOk
    \/ ResolveFail
    \/ \E cands \in StunCandidates, bind_ok \in BOOLEAN : ResolveStunOk(cands, bind_ok)
    \/ \E o \in OutcomesFor(retries) : MakeRequestDone(o)

\* ---- the supervisor as a whole
SupNext ==
    \/ LoopTop
    \/ Probe
    \/ RetrySleep
    \/ \E c \in Callers : StopEnter(c)
    \/ \E c \in Callers : StopGather(c)
    \/ \E c \in Callers : StopKill(c)
    \/ Start
    \/ \E t \in TaskIds : TaskRun(t)
    \/ \E t \in TaskIds : TaskLaunchOk(t)
    \/ \E t \in TaskIds : TaskLaunchFail(t)
    \/ \E t \in TaskIds : TaskTailEnd(t)
    \/ \E t \in TaskIds : TaskKillDone(t)
    \/ \E t \in TaskIds : TaskCancelled(t)
    \/ \E p \in ProcIds : ChildExit(p)
    \/ ExternalCancel
    \/ RunCancelled
    \/ FinalBegin

vars == <<supVars, retries, wireVars, giVars>>

GiIdle ==
    /\ stun_ip = ""
    /\ sock = FALSE
    /\ g_pc = "idle"
    /\ g_src_ip = ""
    /\ g_fam = ""
    /\ g_left = 0
    /\ g_rs = <<>>
    /\ g_ret = None
    /\ g_cause = ""
    /\ g_hist = [prev |-> "", cands |-> None]

\* the supervisor
Init == SupInit /\ retries = 1 /\ WireIdle /\ GiIdle
Next == SupNext
Spec == Init /\ [][Next]_vars

\* one logical STUN request
SupIdle == SupInit /\ check_retries = 1
WireInit == SupIdle /\ retries \in 0..MaxRetries /\ WireIdle /\ GiIdle
SpecWire == WireInit /\ [][WireNext]_vars

\* get_info calls on one Stun instance
SpecStun == WireInit /\ [][GiNext]_vars

\* the supervisor, over the command templates
ArgvInit ==
    /\ check_retries = 1
    /\ cmd \in Templates
    /\ SupStart
    /\ retries = 1 /\ WireIdle /\ GiIdle
SpecArgv == ArgvInit /\ [][Next]_vars

\* the scheduling of the event loop: a ready task step is taken, a timer fires,
\* kill_process() ends (SIGKILL after 5 seconds)
SpecLive ==
    /\ Init
    /\ [][Next]_vars
    /\ \A t \in TaskIds : WF_vars(TaskRun(t))
    /\ \A t \in TaskIds : WF_vars(TaskTailEnd(t))
    /\ \A t \in TaskIds : WF_vars(TaskKillDone(t))

\* ==================================================================== claims
StopJustReturned == lastEvent \in {"StopReturn", "StopReturnKilled"}

\* C1: at most one child process is alive and at most one supervisory task exists
\* in every reachable state, and in the state right after a __stop_live777 call
\* returns no child is alive and both handles are None.
C1_AtMostOneChild ==
    /\ Cardinality(AliveProcs) <= 1
    /\ Cardinality(LiveTasks) <= 1
    /\ StopJustReturned => (AliveProcs = {} /\ live777_task = 0 /\ live777_proc = 0)

\* a stop has just returned after killing the child that was still running
C1_Witness ==
    /\ lastEvent = "StopReturnKilled"
    /\ AliveProcs = {}
    /\ live777_proc = 0

\* C2: an iteration that remembered a and probed b performs stop then start (from
\* b) iff a # b and b.src_ip # "", stop alone iff a # b and b.src_ip = "", and
\* nothing iff a = b; so (A)(A)(B) gives stop+start, nothing, stop+start.
IterDone == pc["run"] = "sleep"
OpsRestart(b) == << <<"stop">>, <<"start", b>> >>
OpsStop == << <<"stop">> >>

C2_RestartIffChanged ==
    IterDone =>
        /\ (iterOps = OpsRestart(netcfg)) <=> (Some(netcfg) # iterPrev /\ netcfg.src_ip # "")
        /\ (iterOps = OpsStop) <=> (Some(netcfg) # iterPrev /\ netcfg.src_ip = "")
        /\ (iterOps = <<>>) <=> (Some(netcfg) = iterPrev)
        /\ prev_netcfg = Some(netcfg)
        /\ (scen = 0 /\ netcfg = ScenA) => iterOps = OpsRestart(ScenA)
        /\ (scen = 1 /\ netcfg = ScenA) => iterOps = <<>>
        /\ (scen = 2 /\ netcfg = ScenB) => iterOps = OpsRestart(ScenB)

\* the third iteration of (A)(A)(B) is over, and it stopped and started from B
C2_Witness ==
    /\ IterDone
    /\ scen = 2
    /\ netcfg = ScenB
    /\ iterOps = OpsRestart(ScenB)
    /\ \E t \in TaskIds : tasks[t].st \in TaskSuspended /\ tasks[t].cfg = ScenB

\* the drop branch: an iteration whose netcfg has an empty src_ip only stopped
C2_WitnessDrop ==
    /\ IterDone
    /\ netcfg.src_ip = ""
    /\ iterOps = OpsStop


\* C9: no two executions of __start_live777 / __stop_live777 overlap; one that has
\* begun runs to completion before another begins, also when its caller is
\* cancelled meanwhile; a stop that finds no task only kills the residual
\* process and clears the handles.
InStop(c) == pc[c] \in {"stop_gather", "stop_kill"}

C9_Exclusive ==
    /\ ~(InStop("run") /\ InStop("final"))
    /\ \A c \in Callers : InStop(c) <=> lock = c

C9_Step ==
    \A c \in Callers :
        /\ (InStop(c) /\ ~InStop(c)') =>
               (StopJustReturned' /\ live777_task' = 0 /\ live777_proc' = 0)
        /\ (InStop(c) /\ c = "run") => pc'[c] # "cancelled" \/ StopJustReturned'
        /\ (pc[c] = "start_wait" /\ pc'[c] # "start_wait") => lastEvent' = "Start"
        /\ (pc[c] = "stop_wait" /\ pc'[c] # "stop_wait" /\ live777_task = 0) =>
               /\ pc'[c] # "stop_gather"
               /\ \A t \in TaskIds : tasks'[t].cancel = tasks[t].cancel
               /\ \/ pc'[c] = "stop_kill" /\ killing'[c] = live777_proc
                  \/ StopJustReturned' /\ live777_task' = 0 /\ live777_proc' = 0

C9_WitnessNoTask ==
    /\ pc["final"] = "done"
    /\ lastEvent = "StopReturn"
    /\ LiveTasks = {}

\* C10: when the child exits or a launch fails and no stop is requested, the
\* supervisory task launches again from the same NetCfg (same argv, same
\* environment); death and spawn failure end neither the task nor the outer loop.
NeedsRelaunch(t) ==
    /\ tasks[t].st \in {"tail", "kill", "sleep"}
    /\ tasks[t].st = "tail" => procs[tasks[t].p].st # "alive"
    /\ ~tasks[t].cancel

Relaunched(t) ==
    /\ tasks[t].st = "launch"
    /\ tasks[t].launches = 2
    /\ tasks[t].argv = tasks[t].pargv
    /\ tasks[t].env = tasks[t].penv

C10_Safe ==
    /\ \A t \in TaskIds :
        /\ tasks[t].st = "done" => tasks[t].cancel
        /\ (tasks[t].st = "launch" /\ tasks[t].launches = 2) => Relaunched(t)
        /\ tasks[t].st = "launch" =>
               /\ tasks[t].argv = RenderCmd(cmd, tasks[t].cfg)
               /\ tasks[t].env = RenderEnv(tasks[t].cfg)
    /\ pc["run"] # "crashed"
    /\ pc["run"] = "cancelled" => cancel_req

C10_Relaunch ==
    /\ []C10_Safe
    /\ \A t \in TaskIds : NeedsRelaunch(t) ~> (Relaunched(t) \/ tasks[t].cancel)

\* a second launch is under way after the first child died, while the outer loop
\* has probed a different network meanwhile
C10_Witness ==
    \E t \in TaskIds :
        /\ Relaunched(t)
        /\ ~tasks[t].cancel
        /\ lastEvent = "TaskRun"
        /\ netcfg # tasks[t].cfg
        /\ tasks[t].argv # <<>>


\* C5: every datagram sent is a 20-byte header followed by the payload: type
\* 0x0001, the payload length, the magic cookie 0x2112A442 at bytes 4..8, the 12
\* random bytes at bytes 8..20; its length is 20 + len(payload).
C5_Header20 ==
    \A i \in 1..Len(w_msgs) :
        LET m == w_msgs[i]
        IN  /\ Len(m) = 20 + Len(w_req)
            /\ Slice(m, 0, 2) = <<0, 1>>
            /\ Slice(m, 2, 4) = U16(Len(w_req))
            /\ Slice(m, 4, 8) = Magic
            /\ Slice(m, 8, 20) = w_token
            /\ SliceFrom(m, 20) = w_req

\* C6: the transaction field of a request is the magic cookie followed by the 12
\* random bytes, and a response of 20 bytes or more with type 0x0101 is rejected
\* exactly when its bytes 4..20 differ from bytes 4..20 of the request sent, so a
\* server that echoes them is accepted.
C6_EchoAccepted ==
    (w_got # None /\ Len(w_got[1]) >= 20 /\ Slice(w_got[1], 0, 2) = <<1, 1>>) =>
        /\ Slice(w_msgs[1], 4, 20) = Magic \o w_token
        /\ (w_error # "") <=> (Slice(w_got[1], 4, 20) # Slice(w_msgs[1], 4, 20))

\* C7: an address encoded as XOR-MAPPED-ADDRESS (port XOR 0x2112, address XOR the
\* magic cookie and the 12-byte transaction id) decodes with __parse_address and
\* the request's transaction id to the original address and port, for IPv4 and
\* IPv6; MAPPED, SOURCE and CHANGED addresses are decoded without any XOR.
C7_XorRoundTrip ==
    w_rt # None => (~w_rt[1].decoded.raised /\ w_rt[1].decoded.addr = w_rt[1].orig)

\* ---- C3
\* C3: get_info never lets an exception reach its caller; whenever it has
\* returned, the StunInfo carries the configured stun_host and stun_port and the
\* src_ip it was called with, and after any failure inside it (resolution, no
\* address of the family, socket or bind, missing CHANGED-ADDRESS, attribute
\* parsing) the nat_type is ERROR and the ext_ip is "".
C3_GetInfoNeverRaises ==
    /\ g_pc # "raised"
    /\ g_pc = "returned" =>
        /\ g_ret # None
        /\ g_ret[1].stun_host = StunHost
        /\ g_ret[1].stun_port = StunPort
        /\ g_ret[1].src_ip = g_src_ip
        /\ g_cause # "" => (g_ret[1].nat_type = "ERROR" /\ g_ret[1].ext_ip = "")

\* a call failed on the missing CHANGED-ADDRESS after the first response had
\* reported an external address, and returned
C3_Witness ==
    /\ g_pc = "returned"
    /\ g_cause = "nochanged"
    /\ g_rs[1].resp.ext # None
    /\ g_ret # None

\* a call failed in the name resolution and returned
C3_WitnessResolve ==
    /\ g_pc = "returned"
    /\ g_cause = "resolve"

\* ---- C4
\* the response of step i, a failed one when the step did not happen
StepResp(rs, i) == IF i <= Len(rs) THEN rs[i].resp ELSE FailedResponse

FirstIsSrc(rs, src_ip) ==
    StepResp(rs, 1).ext # None /\ StepResp(rs, 1).ext[1].ip = src_ip

\* the table of the NAT types, by the outcomes of the steps
ExpectedNat(rs, src_ip) ==
    IF ~StepResp(rs, 1).ok THEN "BLOCKED"
    ELSE IF FirstIsSrc(rs, src_ip) /\ StepResp(rs, 2).ok THEN "OPEN_INTERNET"
    ELSE IF FirstIsSrc(rs, src_ip) THEN "SYMMETRIC_UDP_FW"
    ELSE IF StepResp(rs, 2).ok THEN "FULL_CONE_NAT"
    ELSE IF StepResp(rs, 1).changed = None THEN "ERROR"
    ELSE IF ~StepResp(rs, 3).ok THEN "CHANGED_ADDR_ERROR"
    ELSE IF StepResp(rs, 3).ext # StepResp(rs, 1).ext THEN "SYMMETRIC_NAT"
    ELSE IF StepResp(rs, 4).ok THEN "RESTRICTED_NAT"
    ELSE "RESTRICTED_PORT_NAT"

\* the number of requests the table implies
ExpectedSteps(rs, src_ip) ==
    IF ExpectedNat(rs, src_ip) = "BLOCKED" THEN 1
    ELSE IF ExpectedNat(rs, src_ip) \in
            {"OPEN_INTERNET", "SYMMETRIC_UDP_FW", "FULL_CONE_NAT", "ERROR"} THEN 2
    ELSE IF ExpectedNat(rs, src_ip) \in {"CHANGED_ADDR_ERROR", "SYMMETRIC_NAT"} THEN 3
    ELSE 4

\* the request the table implies for step i
ExpectedRequest(rs, sip, i) ==
    IF i = 1 THEN [ip |-> sip, port |-> StunPort, req |-> <<>>]
    ELSE IF i = 2 THEN [ip |-> sip, port |-> StunPort, req |-> <<0, 3, 0, 4, 0, 0, 0, 6>>]
    ELSE IF i = 3 THEN [ip |-> StepResp(rs, 1).changed[1].ip,
                        port |-> StepResp(rs, 1).changed[1].port, req |-> <<>>]
    ELSE [ip |-> StepResp(rs, 1).changed[1].ip, port |-> StunPort,
          req |-> <<0, 3, 0, 4, 0, 0, 0, 2>>]

\* C4: when get_info has returned after a dialogue none of whose requests
\* raised, the nat_type is the one the table gives for the outcomes of the
\* steps, exactly the steps of the table were made, in order, and each request
\* went to the address and carried the payload the table names.
C4_NatTypeTable ==
    (g_pc = "returned" /\ g_rs # <<>> /\ \A i \in 1..Len(g_rs) : ~g_rs[i].raised) =>
        /\ g_ret[1].nat_type = ExpectedNat(g_rs, g_src_ip)
        /\ Len(g_rs) = ExpectedSteps(g_rs, g_src_ip)
        /\ Len(Dialogue(g_src_ip, stun_ip, g_rs).sent) = Len(g_rs)
        /\ \A i \in 1..Len(g_rs) :
               Dialogue(g_src_ip, stun_ip, g_rs).sent[i] = ExpectedRequest(g_rs, stun_ip, i)

\* a dialogue went through all four steps and ended in RESTRICTED_NAT
C4_Witness ==
    /\ g_pc = "returned"
    /\ Len(g_rs) = 4
    /\ g_ret[1].nat_type = "RESTRICTED_NAT"

\* a dialogue ended in SYMMETRIC_NAT on an external port that changed
C4_WitnessSymmetric ==
    /\ g_pc = "returned"
    /\ Len(g_rs) = 3
    /\ g_ret[1].nat_type = "SYMMETRIC_NAT"
    /\ g_rs[1].resp.ext # None /\ g_rs[3].resp.ext # None
    /\ g_rs[1].resp.ext[1].ip = g_rs[3].resp.ext[1].ip

\* ---- C8
\* the atoms of the model whose text begins with --stun-server
StunServerAtoms == {"--stun-server=", "--stun-server=9.9.9.9:3478"}
StartsWithStunServer(tok) == tok # <<>> /\ tok[1] \in StunServerAtoms

Mentions(part, name) == \E j \in 1..Len(part) : part[j] = Ph(name)
IsNotOStunServerToken(part) == part # OStunServerToken
\* the template without its "{o_stun_server}" tokens
WithoutOStunServer(c) == SelectSeq(c, IsNotOStunServerToken)

\* the tasks that have rendered an argv for run_process
Rendered == {t \in TaskIds : tasks[t].st \in {"launch", "tail"}}

\* with ext_ip == "": no token of the argv begins with --stun-server, and no
\* empty token stands where the template had o_stun_server
NoStunServerIn(argv, c) ==
    /\ \A i \in 1..Len(argv) : ~StartsWithStunServer(argv[i])
    /\ Len(argv) = Len(WithoutOStunServer(c))
    /\ \A i \in 1..Len(argv) :
           argv[i] = <<>> => ~Mentions(WithoutOStunServer(c)[i], "o_stun_server")

\* with ext_ip != "": each "{o_stun_server}" token is --stun-server={stun_ip}:{stun_port}
StunServerIn(argv, c, cfg) ==
    /\ Len(argv) = Len(c)
    /\ \A i \in 1..Len(argv) :
           c[i] = OStunServerToken =>
               argv[i] = <<"--stun-server=", cfg.stun_ip, ":", "3", "4", "7", "8">>

ArgvAsClaimed(t) ==
    IF tasks[t].cfg.ext_ip = ""
    THEN NoStunServerIn(tasks[t].argv, cmd)
    ELSE tasks[t].cfg.stun_port = 3478 /\ StunServerIn(tasks[t].argv, cmd, tasks[t].cfg)

\* C8 as stated, for every command template: an argv rendered for a netcfg
\* with ext_ip == "" has no token beginning with --stun-server and no empty
\* token left by o_stun_server, and one rendered for ext_ip != "" has
\* --stun-server={stun_ip}:{stun_port} for each "{o_stun_server}" token.
C8_EveryTemplate == \A t \in Rendered : ArgvAsClaimed(t)

\* the templates in which o_stun_server occurs only as the whole token
\* "{o_stun_server}" and no token begins with --stun-server
PlainTemplate(c) ==
    \A i \in 1..Len(c) :
        /\ Mentions(c[i], "o_stun_server") => c[i] = OStunServerToken
        /\ ~(c[i] # <<>> /\ c[i][1].k = "lit" /\ c[i][1].v \in StunServerAtoms)

\* C8, amended: the same, for the command templates in which o_stun_server
\* occurs only as the whole token "{o_stun_server}" and no token begins with
\* the text --stun-server.
C8_PlainTemplate == PlainTemplate(cmd) => \A t \in Rendered : ArgvAsClaimed(t)

\* an argv was rendered for ext_ip == "" from a template with two
\* "{o_stun_server}" tokens, and both are gone
C8_Witness ==
    \E t \in Rendered :
        /\ tasks[t].cfg.ext_ip = ""
        /\ cmd = <<Exe, OStunServerToken, OStunServerToken>>
        /\ tasks[t].argv = << <<"/usr/bin/live777">> >>

\* an argv was rendered for ext_ip != "" from a template with the token
C8_WitnessExt ==
    \E t \in Rendered :
        /\ tasks[t].cfg.ext_ip # ""
        /\ PlainTemplate(cmd)
        /\ \E i \in 1..Len(cmd) : cmd[i] = OStunServerToken

\* ---- C11
\* C11: an iteration whose last probe found no local address (__get_default_ip
\* returned "") is over without a start: it only stops the child when the
\* netcfg is new, and starts no replacement.
C11_NoNetworkNoStart ==
    (IterDone /\ iterProbes.n > 0 /\ iterProbes.ip = "") =>
        /\ \A i \in 1..Len(iterOps) : iterOps[i][1] # "start"
        /\ Some(netcfg) # iterPrev => iterOps = OpsStop

\* ---- C12
\* C12: in every reachable state a process handle that is not None comes with a
\* task handle that is not None; and while no start or stop holds the guard, the
\* task of that handle has not finished and is the one that launched the process.
C12_ProcHandleImpliesTask ==
    live777_proc # 0 =>
        /\ live777_task # 0
        /\ IF live777_task # 0 /\ lock = "free"
           THEN /\ tasks[live777_task].st \in TaskSuspended
                /\ tasks[live777_task].p = live777_proc
           ELSE TRUE

\* inside a stop the task has finished while the process handle is still set
C12_Witness ==
    /\ lock # "free"
    /\ live777_proc # 0
    /\ live777_task # 0
    /\ tasks[live777_task].st = "done"

\* outside start and stop the handle is that of a child that has already died
C12_WitnessDead ==
    /\ lock = "free"
    /\ live777_proc # 0
    /\ procs[live777_proc].st # "alive"
    /\ live777_task # 0

\* ---- C13
\* the candidates of the local family, in the order getaddrinfo gave them
MatchingIps(cands, src_ip) ==
    LET same(c) == c.fam = FamOf(src_ip)
    IN  [i \in 1..Len(SelectSeq(cands, same)) |-> SelectSeq(cands, same)[i].ip]
InSeq(x, sq) == \E i \in 1..Len(sq) : sq[i] = x

\* C13: when a get_info call has returned and the resolution of the STUN host
\* gave a non-empty list C of candidates of the local family, the stun_ip
\* remembered, returned and used for the first request is the one remembered
\* before if that is in C, else the first of C; when the resolution failed or
\* gave no candidate of the family, the remembered stun_ip is the one remembered
\* before and is the one returned.
C13_StickyStunIp ==
    g_pc = "returned" =>
        /\ g_ret[1].stun_ip = stun_ip
        /\ IF g_hist.cands # None /\ MatchingIps(g_hist.cands[1], g_src_ip) # <<>>
           THEN /\ InSeq(stun_ip, MatchingIps(g_hist.cands[1], g_src_ip))
                /\ IF InSeq(g_hist.prev, MatchingIps(g_hist.cands[1], g_src_ip))
                   THEN stun_ip = g_hist.prev
                   ELSE stun_ip = MatchingIps(g_hist.cands[1], g_src_ip)[1]
                /\ g_rs # <<>> => Dialogue(g_src_ip, stun_ip, g_rs).sent[1].ip = stun_ip
           ELSE stun_ip = g_hist.prev

\* a call reused the remembered address although it was not the first candidate
C13_Witness ==
    /\ g_pc = "returned"
    /\ g_hist.prev # ""
    /\ g_hist.cands # None
    /\ InSeq(g_hist.prev, MatchingIps(g_hist.cands[1], g_src_ip))
    /\ MatchingIps(g_hist.cands[1], g_src_ip)[1] # g_hist.prev
    /\ g_rs # <<>>

\* a call whose resolution failed returned the address remembered before
C13_WitnessKept ==
    /\ g_pc = "returned"
    /\ g_cause = "resolve"
    /\ g_hist.prev # ""
    /\ g_ret[1].stun_ip = g_hist.prev

\* ---- C14
\* C14: one logical request sends at most `retries` datagrams, all the same
\* (so with the same transaction id); a further attempt is made only after a
\* failed one; and when the request has returned, it gave ok=True only if its
\* last attempt received a response that passed the checks, and ok=False if no
\* attempt did.
C14_AtMostRetries ==
    /\ Len(w_msgs) <= retries
    /\ \A i \in 1..Len(w_msgs) : w_msgs[i] = w_msgs[1]
    /\ (w_pc = "recv" /\ w_attempt > 1) => w_error # ""
    /\ (w_pc = "done" /\ w_out # None /\ ~w_out[1].raised) =>
           (w_out[1].resp.ok <=> (w_attempt >= 1 /\ w_got # None /\ w_error = ""))

\* ---- C15
\* the lookups of the current resolution stage that have failed
FailedLookups == retries - g_left

\* C15: a resolution stage never sees more than `retries` lookups fail: while it
\* is still looking up, fewer than `retries` have failed (or none yet), and when
\* get_info has returned on a resolution failure exactly `retries` had failed
\* and the nat_type is ERROR.
C15_ResolutionBounded ==
    /\ g_pc \in {"resolve_src", "resolve_stun"} =>
           (FailedLookups = 0 \/ FailedLookups < retries)
    /\ (g_pc = "returned" /\ g_cause = "resolve") =>
           (FailedLookups = retries /\ g_ret[1].nat_type = "ERROR")

\* ---- C16
\* malformed attribute sections: an address of family 3, an address body cut
\* after the port, an attribute header cut after three bytes
MalformedSections ==
    { Attr(1, AddrBody(3, 6000, V4a)), Attr(1, <<0, 1, 23, 112>>), <<0, 1, 0>> }

\* C16: a response that passed the header checks and has a malformed attribute
\* section is a failed attempt: the request does not raise, it is over only when
\* all `retries` attempts are used, and it then gives ok=False.
C16_MalformedIsFailedAttempt ==
    (w_got # None /\ w_error = "" /\ SliceFrom(w_got[1], 20) \in MalformedSections) =>
        /\ w_out # None => w_out[1] = Returned(FailedResponse)
        /\ w_pc = "done" => w_attempt = retries

\* ---- C17
\* the attribute section b, walked by the declared lengths, has an address
\* attribute whose declared length is too short for its family
RECURSIVE HasShortAddress(_)
HasShortAddress(b) ==
    IF Len(b) < 4 THEN FALSE
    ELSE LET attr_type == FromU16(Slice(b, 0, 2))
             attr_len == FromU16(Slice(b, 2, 4))
             body == Slice(b, 4, 4 + attr_len)
         IN  \/ /\ attr_type \in {1, 4, 5, 32}
                /\ Len(body) >= 2
                /\ (body[2] = 1 /\ attr_len < 8) \/ (body[2] = 2 /\ attr_len < 20)
             \/ HasShortAddress(SliceFrom(b, 4 + attr_len))

\* C17: a response that passed the header checks and has an address attribute
\* whose declared length is below 8 (family 0x01) or below 20 (family 0x02)
\* fails parsing whatever follows the attribute: the request does not give
\* ok=True with an address decoded from it.
C17_AddressWithinBody ==
    (w_pc = "done" /\ w_got # None /\ w_error = "" /\ w_out # None
     /\ HasShortAddress(SliceFrom(w_got[1], 20))) =>
        (w_out[1].raised \/ ~w_out[1].resp.ok)

\* ---- C18
\* the probes of the current iteration are over and line 105 has compared
Compared == pc["run"] \in {"stop_wait", "stop_gather", "stop_kill", "start_wait", "sleep"}

\* C18 as stated: the first iteration makes exactly one probe, a later one at
\* least one and at most check_retries, none after a probe that returned a
\* non-empty ext_ip, and the netcfg compared is the result of the last probe of
\* the iteration.
C18_ProbesPerIteration ==
    /\ ~iterProbes.afterExt
    /\ Compared =>
        /\ iterPrev = None => iterProbes.n = 1
        /\ iterPrev # None => (iterProbes.n >= 1 /\ iterProbes.n <= check_retries)
        /\ iterProbes.last = Some(netcfg)

\* C18, amended: the first iteration makes exactly one probe, a later one at
\* most check_retries, and at least one when check_retries >= 1; none is made
\* after a probe that returned a non-empty ext_ip; the netcfg compared is the
\* result of the last probe of the iteration, or the default _Netcfg() when the
\* iteration made no probe (check_retries = 0).
C18_ProbesUpToCheckRetries ==
    /\ ~iterProbes.afterExt
    /\ Compared =>
        /\ iterPrev = None => iterProbes.n = 1
        /\ iterPrev # None =>
               /\ iterProbes.n <= check_retries
               /\ check_retries >= 1 => iterProbes.n >= 1
        /\ iterProbes.n >= 1 => iterProbes.last = Some(netcfg)
        /\ iterProbes.n = 0 => (check_retries = 0 /\ netcfg = DefaultNetcfg)

\* a later iteration needed a second probe, which returned an ext_ip
C18_Witness ==
    /\ Compared
    /\ iterPrev # None
    /\ iterProbes.n = 2
    /\ netcfg.ext_ip # ""

\* a later iteration compared without having probed
C18_WitnessNoProbe ==
    /\ Compared
    /\ iterPrev # None
    /\ iterProbes.n = 0

\* ---- C19
\* C19: neither `assert not self.__live777_task` of __start_live777 nor
\* `assert self.__live777_proc is None` of __start_live777_proc ever fails.
C19_AssertsHold == ~assert_failed

\* __start_live777 was entered and passed its assert in an iteration whose stop
\* had to cancel the task of an earlier start
C19_Witness ==
    /\ lastEvent = "Start"
    /\ ~assert_failed
    /\ live777_task # 0
    /\ iterPrev # None
    /\ iterPrev[1].src_ip # ""

\* __start_live777_proc was entered again by the same task and passed its assert
C19_WitnessRelaunch ==
    /\ lastEvent = "TaskRun"
    /\ ~assert_failed
    /\ \E t \in TaskIds : tasks[t].st = "launch" /\ tasks[t].launches = 2

\* ---- C20
\* C20: when get_info has returned, a nat_type of BLOCKED, SYMMETRIC_UDP_FW,
\* CHANGED_ADDR_ERROR, RESTRICTED_PORT_NAT or ERROR comes with ext_ip = "", a
\* non-empty ext_ip comes with OPEN_INTERNET, FULL_CONE_NAT, RESTRICTED_NAT or
\* SYMMETRIC_NAT, and after a dialogue that ended without failure the ext_ip is
\* that of the last response received, "" when that has none.
C20_ExtIpOfLastResponse ==
    g_pc = "returned" =>
        /\ g_ret[1].nat_type \in {"BLOCKED", "SYMMETRIC_UDP_FW", "CHANGED_ADDR_ERROR",
                                  "RESTRICTED_PORT_NAT", "ERROR"}
               => g_ret[1].ext_ip = ""
        /\ g_ret[1].ext_ip # ""
               => g_ret[1].nat_type \in {"OPEN_INTERNET", "FULL_CONE_NAT", "RESTRICTED_NAT",
                                         "SYMMETRIC_NAT"}
        /\ (g_cause = "" /\ g_rs # <<>>) =>
               g_ret[1].ext_ip = (IF g_rs[Len(g_rs)].resp.ext = None THEN ""
                                  ELSE g_rs[Len(g_rs)].resp.ext[1].ip)

\* a dialogue ended in RESTRICTED_PORT_NAT with an empty ext_ip although its
\* first response had reported an external address
C20_Witness ==
    /\ g_pc = "returned"
    /\ g_ret[1].nat_type = "RESTRICTED_PORT_NAT"
    /\ g_rs[1].resp.ext # None
    /\ g_ret[1].ext_ip = ""

====
